---- MODULE Spec2Model ----
(***************************************************************************)
(* ODZ v2 container decoder (odz_decompress, decompress_huffman_block)     *)
(* as a state machine, with the compressor side that produces its inputs.  *)
(*                                                                         *)
(* Streams are sequences of bytes.  The file header and the block headers  *)
(* are modelled byte for byte.  The payload of a Huffman block is modelled *)
(* one element per code of the packed bit stream: five elements describe   *)
(* the transmitted trees (n_ll, n_dist, whether the length vector is       *)
(* over-subscribed, and the symbol the all-zero code decodes to in each    *)
(* alphabet), then one element per Huffman symbol or extra-bits field.     *)
(* compressed_size counts these elements.                                  *)
(*                                                                         *)
(* Around the decoder: the command line tool (main) and the in-memory      *)
(* adapter (odz_wasm_compress, odz_wasm_decompress) as callers, each with  *)
(* its own specification, and the match copy tried on its own.             *)
(***************************************************************************)
EXTENDS Integers, Sequences, FiniteSets, TLC

\* ------------------------------------------------------------ constants

ODZ_FORMAT_VERSION == 2
ODZ_VERSION == ODZ_FORMAT_VERSION

ODZ_OK == 0
ODZ_ERR_IO == 1
ODZ_ERR_OOM == 2
ODZ_ERR_FORMAT == 3
ODZ_ERR_CORRUPT == 4

ODZ_BLOCK_STORED == 0
ODZ_BLOCK_HUFFMAN == 1
LITLEN_END == 256

\* The block size, scaled down (1,048,576 in the program).
ODZ_BLOCK_SIZE == 5

\* Longest plaintext: one byte more than a block, so that two blocks occur.
MaxLen == ODZ_BLOCK_SIZE + 1

\* Plaintext bytes: 'A' and 'B'.
Alphabet == {65, 66}

\* Longest token part of a hand-made Huffman payload.
MaxUnits == 3

Min(a, b) == IF a < b THEN a ELSE b
Max(a, b) == IF a > b THEN a ELSE b

\* ------------------------------------------------------------ LZ tables
\* Indexed from 1 here (code index c of the program is entry c + 1).

base_length ==
    << 3, 4, 5, 6, 7, 8, 9, 10, 11, 13, 15, 17, 19, 23, 27, 31,
       35, 43, 51, 59, 67, 83, 99, 115, 131, 163, 195, 227, 258 >>

extra_lbits ==
    << 0, 0, 0, 0, 0, 0, 0, 0, 1, 1, 1, 1, 2, 2, 2, 2,
       3, 3, 3, 3, 4, 4, 4, 4, 5, 5, 5, 5, 0 >>

base_dist ==
    << 1, 2, 3, 4, 5, 7, 9, 13, 17, 25, 33, 49, 65, 97, 129, 193,
       257, 385, 513, 769, 1025, 1537, 2049, 3073, 4097, 6145,
       8193, 12289, 16385, 24577 >>

extra_dbits ==
    << 0, 0, 0, 0, 1, 1, 2, 2, 3, 3, 4, 4, 5, 5, 6, 6,
       7, 7, 8, 8, 9, 9, 10, 10, 11, 11, 12, 12, 13, 13 >>

Pow2(n) == 2 ^ n

\* ------------------------------------------------------------ integers

\* rd_u32le: four bytes, least significant first.
rd_u32le(b, at) ==
    b[at] + 256 * b[at + 1] + 65536 * b[at + 2] + 16777216 * b[at + 3]

\* rd_u64le: eight bytes, least significant first, kept as two 32-bit halves.
rd_u64le(b, at) == [lo |-> rd_u32le(b, at), hi |-> rd_u32le(b, at + 4)]

\* A 64-bit counter value below 2^32, as two halves.
U64(n) == [lo |-> n, hi |-> 0]

wr_u32le(n) ==
    << n % 256, (n \div 256) % 256, (n \div 65536) % 256, (n \div 16777216) % 256 >>

wr_u64le(n) == wr_u32le(n) \o << 0, 0, 0, 0 >>

\* ------------------------------------------------------------ compressor

\* Length of the match at position i (1-based) of buf with distance d.
RECURSIVE MatchLen(_, _, _, _)
MatchLen(buf, i, d, k) ==
    IF k < 258 /\ i + k <= Len(buf) /\ buf[i + k] = buf[i + k - d]
    THEN MatchLen(buf, i, d, k + 1)
    ELSE k

\* Best (length, distance) at position i: longest, then smallest distance.
BestMatch(buf, i) ==
    LET D == 1 .. Min(i - 1, 32768)
        L(d) == MatchLen(buf, i, d, 0)
    IN  IF D = {} THEN [length |-> 0, dist |-> 0]
        ELSE LET best == CHOOSE d \in D :
                            \A e \in D : L(e) < L(d) \/ (L(e) = L(d) /\ d <= e)
             IN  [length |-> L(best), dist |-> best]

\* Code index (0-based) of a value in a base table: the last base <= v.
CodeOf(table, v) ==
    (CHOOSE c \in 1 .. Len(table) :
        /\ table[c] <= v
        /\ \A e \in 1 .. Len(table) : table[e] <= v => e <= c) - 1

\* The elements one match contributes to the payload.
MatchUnits(length, dist) ==
    LET lc == CodeOf(base_length, length)
        dc == CodeOf(base_dist, dist)
    IN  << 257 + lc >>
        \o (IF extra_lbits[lc + 1] > 0 THEN << length - base_length[lc + 1] >> ELSE << >>)
        \o << dc >>
        \o (IF extra_dbits[dc + 1] > 0 THEN << dist - base_dist[dc + 1] >> ELSE << >>)

\* Greedy LZ77 over one block, emitted as payload elements, End last.
RECURSIVE TokenUnits(_, _)
TokenUnits(buf, i) ==
    IF i > Len(buf) THEN << LITLEN_END >>
    ELSE LET m == BestMatch(buf, i)
         IN  IF m.length >= 3
             THEN MatchUnits(m.length, m.dist) \o TokenUnits(buf, i + m.length)
             ELSE << buf[i] >> \o TokenUnits(buf, i + 1)

\* Literal/length symbols and distance symbols a block uses.
RECURSIVE UsedSyms(_, _, _)
UsedSyms(buf, i, dist) ==
    IF i > Len(buf) THEN IF dist THEN {} ELSE {LITLEN_END}
    ELSE LET m == BestMatch(buf, i)
         IN  IF m.length >= 3
             THEN {IF dist THEN CodeOf(base_dist, m.dist)
                           ELSE 257 + CodeOf(base_length, m.length)}
                  \cup UsedSyms(buf, i + m.length, dist)
             ELSE (IF dist THEN {} ELSE {buf[i]}) \cup UsedSyms(buf, i + 1, dist)

SetMax(S) == CHOOSE m \in S : \A e \in S : e <= m
SetMin(S) == CHOOSE m \in S : \A e \in S : m <= e

\* Tree transmission: n_ll, n_dist, Kraft flag, zero-code symbols.
TreeUnits(buf) ==
    LET ll == UsedSyms(buf, 1, FALSE)
        dd == UsedSyms(buf, 1, TRUE)
    IN  << Max(257, SetMax(ll) + 1),
           IF dd = {} THEN 1 ELSE SetMax(dd) + 1,
           0,
           SetMin(ll),
           IF dd = {} THEN 0 ELSE SetMin(dd) >>

StoredBlock(flag, data) == << flag >> \o wr_u32le(Len(data)) \o data

HuffmanBlock(flag, raw, units) ==
    << flag >> \o wr_u32le(raw) \o wr_u32le(Len(units)) \o units

FileHeader(size) == << 79, 68, 90, ODZ_FORMAT_VERSION >> \o wr_u64le(size)

NBlocks(x) ==
    IF Len(x) = 0 THEN 1 ELSE (Len(x) + ODZ_BLOCK_SIZE - 1) \div ODZ_BLOCK_SIZE

BlockOf(x, k) ==
    SubSeq(x, (k - 1) * ODZ_BLOCK_SIZE + 1, Min(k * ODZ_BLOCK_SIZE, Len(x)))

\* One block of the container; kinds[k] chooses stored (0) or Huffman (1).
CompressBlock(x, k, kinds) ==
    LET buf == BlockOf(x, k)
        last == IF k = NBlocks(x) THEN 1 ELSE 0
    IN  IF kinds[k] = ODZ_BLOCK_STORED
        THEN StoredBlock(last, buf)
        ELSE HuffmanBlock(last + 2, Len(buf), TreeUnits(buf) \o TokenUnits(buf, 1))

RECURSIVE CompressBlocks(_, _, _)
CompressBlocks(x, k, kinds) ==
    IF k > NBlocks(x) THEN << >>
    ELSE CompressBlock(x, k, kinds) \o CompressBlocks(x, k + 1, kinds)

\* odz_compress: file header, then the blocks.
Compress(x, kinds) == FileHeader(Len(x)) \o CompressBlocks(x, 1, kinds)

\* ------------------------------------------------------------ state

VARIABLES
    in,             \* the input stream's bytes
    inPos,          \* bytes of it consumed so far
    out,            \* bytes written to the output stream
    opts,           \* the options: present, progress callback set, userdata
    pc,             \* position in odz_decompress
    rc,             \* the status (returned once pc = "Done")
    original_size,  \* the header's size field, two 32-bit halves
    total_out,
    is_last,
    blk_type,
    raw_size,
    comp,           \* contents of the staging buffer
    brPos,          \* payload elements the bit reader has consumed
    zsym,           \* what the all-zero code decodes to: [ll, d]
    op,             \* decompress_huffman_block's write position
    out_pos,
    block_out,      \* contents of the block buffer, -1 = never written
    heap,           \* per buffer: pointer non-NULL, allocations, frees
    uaf,            \* a buffer was used while not allocated
    calls,          \* the progress callback's invocations, in order
    done,           \* raw_size of each block completed and written
    fault,          \* what the environment did wrong, and where
    hist,           \* positions passed through
    src,            \* how the input was made
    host,           \* the caller: the library's user, the CLI, the in-memory adapter
    mc              \* one match copy on its own: the buffer and the match

vars ==
    << in, inPos, out, opts, pc, rc, original_size, total_out, is_last,
       blk_type, raw_size, comp, brPos, zsym, op, out_pos, block_out, heap,
       uaf, calls, done, fault, hist, src, host, mc >>

Buffers == {"block_out", "comp", "ll_tab", "d_tab"}

NoFault == [kind |-> "none", at |-> "none"]

\* odz_decompress called directly.
NoHost == [kind |-> "lib"]

NoCopy == [state |-> "none"]

\* ------------------------------------------------------------ heap

Malloc(h, b) == [h EXCEPT ![b] = [ptr |-> TRUE, allocs |-> @.allocs + 1, frees |-> @.frees]]

\* free(p): nothing for NULL, else one release of what p points to.
Free(h, b) == IF h[b].ptr THEN [h EXCEPT ![b].frees = @ + 1] ELSE h

SetNull(h, b) == [h EXCEPT ![b].ptr = FALSE]

Live(h, b) == h[b].ptr /\ h[b].allocs = h[b].frees + 1

\* Mutation: the pointer not cleared after the release.
FreeComp_keep(h) == Free(h, "comp")

\* free(comp); comp = NULL;
FreeComp(h) == SetNull(Free(h, "comp"), "comp")

\* huff_free_decode_table2: release the secondary arena and clear it.
huff_free_decode_table2(h, b) == SetNull(Free(h, b), b)

\* The cleanup label: both tables, block_out, comp.
CleanupHeap(h) ==
    Free(Free(huff_free_decode_table2(huff_free_decode_table2(h, "ll_tab"), "d_tab"),
              "block_out"), "comp")

\* huff_build_decode_table2: the arena is allocated once and reused.
BuildTable(h, b) == IF h[b].ptr THEN h ELSE Malloc(h, b)

\* ------------------------------------------------------------ streams

Avail == Len(in) - inPos

\* fread(dst, 1, n, in) at offset skip from the current position: what it returns.
Fread(skip, n) == Min(n, Max(0, Avail - skip))

\* Mutation: a short read reported as corrupt data.
ShortReadStatus_corrupt == ODZ_ERR_CORRUPT

\* The status a short read gives.
ShortReadStatus == ODZ_ERR_IO

ShortRead(got, n) == got # n

\* Mutation: the result of the write not looked at.
ShortWrite_ignored(put, n) == FALSE

ShortWrite(put, n) == put # n

BadMagic(hdr) == hdr[1] # 79 \/ hdr[2] # 68 \/ hdr[3] # 90

\* Mutation: only newer versions refused.
BadVersion_newer(hdr) == hdr[4] > ODZ_VERSION

BadVersion(hdr) == hdr[4] # ODZ_VERSION

IsLast(b) == b % 2

\* Mutation: the block type masked to one bit.
BlockType_1bit(b) == (b \div 2) % 2

BlockType(b) == (b \div 2) % 4

\* Mutation: the bound off by one.
Oversized_offbyone(n) == n > ODZ_BLOCK_SIZE + 1

Oversized(n) == n > ODZ_BLOCK_SIZE

\* Mutation: the totals compared in 32 bits.
SizeMismatch_lo32(total, orig) == total # orig.lo

SizeMismatch(total, orig) == U64(total) # orig

\* Block buffer after n bytes of data were stored from its start.
Fill(buf, data, n) ==
    [i \in DOMAIN buf |-> IF i < n THEN data[i + 1] ELSE buf[i]]

\* Mutation: the whole block buffer written, whatever the block's size.
Taken_whole(buf, n) == [i \in 1 .. ODZ_BLOCK_SIZE |-> buf[i - 1]]

\* The first n bytes of the block buffer, as written to the output.
Taken(buf, n) == [i \in 1 .. n |-> buf[i - 1]]

\* ------------------------------------------------------------ bit reader

\* br_read of a field nbits wide: zero once the payload is exhausted.
br_read(c, pos, nbits) == IF pos + 1 <= Len(c) THEN c[pos + 1] % Pow2(nbits) ELSE 0

\* huff_decode2: the next symbol; past the end the all-zero code is decoded.
huff_decode2(c, pos, zero) == IF pos + 1 <= Len(c) THEN c[pos + 1] ELSE zero

\* huff_read_trees: nonzero when the transmitted trees are invalid.
huff_read_trees(c) ==
    LET n_ll == br_read(c, 0, 9)
        n_dist == br_read(c, 1, 5)
        over == br_read(c, 2, 1)
    IN  IF n_ll < 257 \/ n_ll > 286 \/ n_dist < 1 \/ n_dist > 30 \/ over # 0
        THEN 1 ELSE 0

\* ------------------------------------------------------------ match copy

\* Mutation: every match copied as one block copy of the bytes as they were.
CopyMatch_memcpy(buf, pos, dist, length) ==
    [i \in DOMAIN buf |->
        IF i < pos \/ i >= pos + length THEN buf[i] ELSE buf[(pos - dist) + (i - pos)]]

\* memcpy(out + dst, out + s, n): the regions never overlap where it is called.
Memcpy(buf, dst, s, n) ==
    [i \in DOMAIN buf |-> IF i >= dst /\ i < dst + n THEN buf[s + (i - dst)] ELSE buf[i]]

\* memset(out + dst, v, n)
Memset(buf, dst, v, n) ==
    [i \in DOMAIN buf |-> IF i >= dst /\ i < dst + n THEN v ELSE buf[i]]

\* Mutation: the rest shorter than one period is not copied.
RECURSIVE ChunkCopy_whole(_, _, _, _, _)
ChunkCopy_whole(buf, dst, s, d, rem) ==
    IF rem >= d THEN ChunkCopy_whole(Memcpy(buf, dst, s, d), dst + d, s, d, rem - d)
    ELSE buf

\* The chunk loop: whole periods from the fixed source, then the rest.
RECURSIVE ChunkCopy(_, _, _, _, _)
ChunkCopy(buf, dst, s, d, rem) ==
    IF rem >= d THEN ChunkCopy(Memcpy(buf, dst, s, d), dst + d, s, d, rem - d)
    ELSE IF rem > 0 THEN Memcpy(buf, dst, s, rem)
    ELSE buf

\* The three branches of the match copy.
CopyMatch(buf, pos, dist, length) ==
    IF dist >= length THEN Memcpy(buf, pos, pos - dist, length)
    ELSE IF dist = 1 THEN Memset(buf, pos, buf[pos - 1], length)
    ELSE ChunkCopy(buf, pos, pos - dist, dist, length)

\* ------------------------------------------------------------ steps

Goto(p) == pc' = p /\ hist' = Append(hist, p)

Fail(code, p) == rc' = code /\ Goto(p)

EnvFault(k) == fault' = [kind |-> k, at |-> pc]

\* Lines 123-133: the file header and the block buffer.
ReadFileHdr ==
    /\ pc = "ReadFileHdr"
    /\ LET got == Fread(0, 12)
           hdr == SubSeq(in, inPos + 1, inPos + got)
       IN  /\ inPos' = inPos + got
           /\ IF ShortRead(got, 12)
              THEN /\ Fail(ShortReadStatus, "Done") /\ EnvFault("short_read")
                   /\ UNCHANGED << original_size, heap, block_out >>
              ELSE IF BadMagic(hdr) \/ BadVersion(hdr)
              THEN /\ Fail(ODZ_ERR_FORMAT, "Done")
                   /\ UNCHANGED << original_size, heap, block_out, fault >>
              ELSE /\ original_size' = rd_u64le(hdr, 5)
                   /\ \E ok \in BOOLEAN :
                        IF ok
                        THEN /\ heap' = Malloc(heap, "block_out")
                             /\ block_out' = [i \in 0 .. ODZ_BLOCK_SIZE - 1 |-> -1]
                             /\ Goto("ReadBlockHdr")
                             /\ UNCHANGED << rc, fault >>
                        ELSE /\ Fail(ODZ_ERR_OOM, "Done") /\ EnvFault("oom")
                             /\ UNCHANGED << heap, block_out >>
    /\ UNCHANGED << in, out, opts, total_out, is_last, blk_type, raw_size, comp,
                    brPos, zsym, op, out_pos, uaf, calls, done, src, host, mc >>

\* Lines 139-147 and 182-185: the flag byte and the dispatch on the block type.
ReadBlockHdr ==
    /\ pc = "ReadBlockHdr"
    /\ LET got == Fread(0, 1)
       IN  /\ inPos' = inPos + got
           /\ IF ShortRead(got, 1)
              THEN /\ Fail(ShortReadStatus, "Cleanup") /\ EnvFault("short_read")
                   /\ UNCHANGED << is_last, blk_type >>
              ELSE LET b == in[inPos + 1]
                   IN  /\ is_last' = IsLast(b)
                       /\ blk_type' = BlockType(b)
                       /\ UNCHANGED fault
                       /\ IF BlockType(b) = ODZ_BLOCK_STORED
                          THEN Goto("ReadStored") /\ UNCHANGED rc
                          ELSE IF BlockType(b) = ODZ_BLOCK_HUFFMAN
                          THEN Goto("ReadHuffman") /\ UNCHANGED rc
                          ELSE Fail(ODZ_ERR_FORMAT, "Cleanup")
    /\ UNCHANGED << in, out, opts, original_size, total_out, raw_size, comp, brPos,
                    zsym, op, out_pos, block_out, heap, uaf, calls, done, src, host, mc >>

\* Lines 148-156: a stored block.
ReadStored ==
    /\ pc = "ReadStored"
    /\ LET got == Fread(0, 4)
           n == rd_u32le(in, inPos + 1)
           gotd == Fread(4, n)
           data == SubSeq(in, inPos + 5, inPos + 4 + gotd)
       IN  IF ShortRead(got, 4)
           THEN /\ inPos' = inPos + got
                /\ Fail(ShortReadStatus, "Cleanup") /\ EnvFault("short_read")
                /\ UNCHANGED << out, total_out, raw_size, block_out, uaf, done >>
           ELSE /\ raw_size' = n
                /\ IF Oversized(n)
                   THEN /\ inPos' = inPos + 4
                        /\ Fail(ODZ_ERR_CORRUPT, "Cleanup")
                        /\ UNCHANGED << out, total_out, block_out, uaf, done, fault >>
                   ELSE /\ inPos' = inPos + 4 + gotd
                        /\ block_out' = Fill(block_out, data, gotd)
                        /\ uaf' = (uaf \/ ~Live(heap, "block_out"))
                        /\ IF ShortRead(gotd, n)
                           THEN /\ Fail(ShortReadStatus, "Cleanup") /\ EnvFault("short_read")
                                /\ UNCHANGED << out, total_out, done >>
                           ELSE \E put \in 0 .. n :
                                  /\ out' = out \o Taken(Fill(block_out, data, gotd), put)
                                  /\ IF ShortWrite(put, n)
                                     THEN /\ Fail(ODZ_ERR_IO, "Cleanup")
                                          /\ EnvFault("short_write")
                                          /\ UNCHANGED << total_out, done >>
                                     ELSE /\ total_out' = total_out + n
                                          /\ done' = Append(done, n)
                                          /\ Goto("Progress")
                                          /\ UNCHANGED << rc, fault >>
    /\ UNCHANGED << in, opts, original_size, is_last, blk_type, comp, brPos, zsym,
                    op, out_pos, heap, calls, src, host, mc >>

\* Lines 159-171: a Huffman block's sizes and its compressed bytes.
ReadHuffman ==
    /\ pc = "ReadHuffman"
    /\ LET got == Fread(0, 8)
           n == rd_u32le(in, inPos + 1)
           comp_size == rd_u32le(in, inPos + 5)
           gotc == Fread(8, comp_size)
       IN  IF ShortRead(got, 8)
           THEN /\ inPos' = inPos + got
                /\ Fail(ShortReadStatus, "Cleanup") /\ EnvFault("short_read")
                /\ UNCHANGED << raw_size, comp, heap, out_pos >>
           ELSE /\ raw_size' = n
                /\ IF Oversized(n)
                   THEN /\ inPos' = inPos + 8
                        /\ Fail(ODZ_ERR_CORRUPT, "Cleanup")
                        /\ UNCHANGED << comp, heap, out_pos, fault >>
                   ELSE \E ok \in BOOLEAN :
                          IF ~ok
                          THEN /\ inPos' = inPos + 8
                               /\ Fail(ODZ_ERR_OOM, "Cleanup") /\ EnvFault("oom")
                               /\ UNCHANGED << comp, heap, out_pos >>
                          ELSE /\ heap' = Malloc(heap, "comp")
                               /\ inPos' = inPos + 8 + gotc
                               /\ comp' = SubSeq(in, inPos + 9, inPos + 8 + gotc)
                               /\ IF ShortRead(gotc, comp_size)
                                  THEN /\ Fail(ShortReadStatus, "Cleanup")
                                       /\ EnvFault("short_read")
                                       /\ UNCHANGED out_pos
                                  ELSE /\ out_pos' = 0
                                       /\ Goto("ReadTrees")
                                       /\ UNCHANGED << rc, fault >>
    /\ UNCHANGED << in, out, opts, original_size, total_out, is_last, blk_type,
                    brPos, zsym, op, block_out, uaf, calls, done, src, host, mc >>

\* Mutation: unreadable trees reported as an allocation failure.
TreeErrorStatus_oom == ODZ_ERR_OOM

\* The status huff_read_trees' failure gives.
TreeErrorStatus == ODZ_ERR_CORRUPT

\* Lines 44-57 and 175: read the trees, build both decode tables.
ReadTrees ==
    /\ pc = "ReadTrees"
    /\ uaf' = (uaf \/ ~Live(heap, "comp"))
    /\ IF huff_read_trees(comp) # 0
       THEN /\ Fail(TreeErrorStatus, "Cleanup")
            /\ heap' = FreeComp(heap)
            /\ UNCHANGED << brPos, zsym, op, fault >>
       ELSE \E r \in {"ok", "oom_ll", "oom_d"} :
              IF r = "ok"
              THEN /\ heap' = BuildTable(BuildTable(heap, "ll_tab"), "d_tab")
                   /\ brPos' = 5
                   /\ zsym' = [ll |-> br_read(comp, 3, 9), d |-> br_read(comp, 4, 5)]
                   /\ op' = out_pos
                   /\ Goto("DecodeToken")
                   /\ UNCHANGED << rc, fault >>
              ELSE /\ heap' = FreeComp(IF r = "oom_d" THEN BuildTable(heap, "ll_tab")
                                                      ELSE heap)
                   /\ Fail(ODZ_ERR_OOM, "Cleanup") /\ EnvFault("oom")
                   /\ UNCHANGED << brPos, zsym, op >>
    /\ UNCHANGED << in, inPos, out, opts, original_size, total_out, is_last,
                    blk_type, raw_size, comp, out_pos, block_out, calls, done, src, host, mc >>

BadLengthCode(code_idx) == code_idx < 0 \/ code_idx >= 29

BadDistCode(dcode) == dcode < 0 \/ dcode >= 30

BadDistance(dist, pos) == dist <= 0 \/ dist > pos

MatchOverrun(pos, length, n) == pos + length > n

\* Mutation: the literal's bound off by one.
LiteralOverrun_offbyone(pos, n) == pos > n

\* Mutation: a literal stored without looking at the bound.
LiteralOverrun_never(pos, n) == FALSE

LiteralOverrun(pos, n) == pos >= n

\* Mutation: only a block that produced too much is refused.
BlockSizeMismatch_over(pos, n) == pos > n

BlockSizeMismatch(pos, n) == pos # n

\* Lines 61-111 and 175: one pass of the token loop.
DecodeToken ==
    /\ pc = "DecodeToken"
    /\ uaf' = (uaf \/ ~Live(heap, "comp") \/ ~Live(heap, "block_out")
                   \/ ~Live(heap, "ll_tab") \/ ~Live(heap, "d_tab"))
    /\ LET sym == huff_decode2(comp, brPos, zsym.ll)
           code_idx == sym - 257
           lbits == extra_lbits[code_idx + 1]
           length == base_length[code_idx + 1]
                     + (IF lbits > 0 THEN br_read(comp, brPos + 1, lbits) ELSE 0)
           p1 == brPos + 1 + (IF lbits > 0 THEN 1 ELSE 0)
           dcode == huff_decode2(comp, p1, zsym.d)
           dbits == extra_dbits[dcode + 1]
           dist == base_dist[dcode + 1]
                   + (IF dbits > 0 THEN br_read(comp, p1 + 1, dbits) ELSE 0)
           p2 == p1 + 1 + (IF dbits > 0 THEN 1 ELSE 0)
           Corrupt == /\ Fail(ODZ_ERR_CORRUPT, "Cleanup")
                      /\ heap' = FreeComp(heap)
                      /\ UNCHANGED << brPos, op, out_pos, block_out >>
       IN  IF sym < 256
           THEN IF LiteralOverrun(op, raw_size)
                THEN Corrupt
                ELSE /\ block_out' = [block_out EXCEPT ![op] = sym]
                     /\ op' = op + 1
                     /\ brPos' = brPos + 1
                     /\ UNCHANGED << pc, hist, rc, heap, out_pos >>
           ELSE IF sym = LITLEN_END
           THEN /\ out_pos' = op
                /\ brPos' = brPos + 1
                /\ Goto("FinishHuffman")
                /\ UNCHANGED << rc, heap, op, block_out >>
           ELSE IF BadLengthCode(code_idx) THEN Corrupt
           ELSE IF BadDistCode(dcode) THEN Corrupt
           ELSE IF BadDistance(dist, op) THEN Corrupt
           ELSE IF MatchOverrun(op, length, raw_size) THEN Corrupt
           ELSE /\ block_out' = CopyMatch(block_out, op, dist, length)
                /\ op' = op + length
                /\ brPos' = p2
                /\ UNCHANGED << pc, hist, rc, heap, out_pos >>
    /\ UNCHANGED << in, inPos, out, opts, original_size, total_out, is_last,
                    blk_type, raw_size, comp, zsym, calls, done, fault, src, host, mc >>

\* Lines 176-181: the block-end size check, the write, the staging buffer.
FinishHuffman ==
    /\ pc = "FinishHuffman"
    /\ heap' = FreeComp(heap)
    /\ IF BlockSizeMismatch(out_pos, raw_size)
       THEN /\ Fail(ODZ_ERR_CORRUPT, "Cleanup")
            /\ UNCHANGED << out, total_out, done, fault, uaf >>
       ELSE /\ uaf' = (uaf \/ ~Live(heap, "block_out"))
            /\ \E put \in 0 .. raw_size :
                 /\ out' = out \o Taken(block_out, put)
                 /\ IF ShortWrite(put, raw_size)
                    THEN /\ Fail(ODZ_ERR_IO, "Cleanup") /\ EnvFault("short_write")
                         /\ UNCHANGED << total_out, done >>
                    ELSE /\ total_out' = total_out + raw_size
                         /\ done' = Append(done, raw_size)
                         /\ Goto("Progress")
                         /\ UNCHANGED << rc, fault >>
    /\ UNCHANGED << in, inPos, opts, original_size, is_last, blk_type, raw_size,
                    comp, brPos, zsym, op, out_pos, block_out, calls, src, host, mc >>

\* What the progress callback may return.
ProgressReturns == {0, 1, -1}

\* The CLI's progress_cb always returns 0; another caller's may return anything.
CallbackReturns == IF host.kind = "cli" THEN {0} ELSE ProgressReturns

HasProgress(o) == o.present /\ o.progress

\* Mutation: only a positive return aborts.
Aborted_positive(ret) == ret > 0

Aborted(ret) == ret # 0

\* Mutation: the loop's exit test inverted.
AfterBlock_inverted(last) == IF last # 0 THEN "ReadBlockHdr" ELSE "Verify"

AfterBlock(last) == IF last # 0 THEN "Verify" ELSE "ReadBlockHdr"

\* Lines 187-195: the progress callback, then the loop's exit test.
Progress ==
    /\ pc = "Progress"
    /\ IF HasProgress(opts)
       THEN \E ret \in CallbackReturns :
              /\ calls' = Append(calls, [processed |-> U64(total_out),
                                         total |-> original_size,
                                         userdata |-> opts.userdata,
                                         ret |-> ret])
              /\ IF Aborted(ret)
                 THEN Fail(ODZ_ERR_IO, "Cleanup") /\ EnvFault("abort")
                 ELSE Goto(AfterBlock(is_last)) /\ UNCHANGED << rc, fault >>
       ELSE /\ Goto(AfterBlock(is_last))
            /\ UNCHANGED << rc, fault, calls >>
    /\ UNCHANGED << in, inPos, out, opts, original_size, total_out, is_last,
                    blk_type, raw_size, comp, brPos, zsym, op, out_pos, block_out,
                    heap, uaf, done, src, host, mc >>

\* Line 198: the sum of the blocks against the header.
Verify ==
    /\ pc = "Verify"
    /\ IF SizeMismatch(total_out, original_size)
       THEN Fail(ODZ_ERR_CORRUPT, "Cleanup")
       ELSE Goto("Cleanup") /\ UNCHANGED rc
    /\ UNCHANGED << in, inPos, out, opts, original_size, total_out, is_last,
                    blk_type, raw_size, comp, brPos, zsym, op, out_pos, block_out,
                    heap, uaf, calls, done, fault, src, host, mc >>

\* Lines 200-205: the cleanup label.
Cleanup ==
    /\ pc = "Cleanup"
    /\ heap' = CleanupHeap(heap)
    /\ Goto("Done")
    /\ UNCHANGED << in, inPos, out, opts, rc, original_size, total_out, is_last,
                    blk_type, raw_size, comp, brPos, zsym, op, out_pos, block_out,
                    uaf, calls, done, fault, src, host, mc >>

\* ------------------------------------------------------------ inputs

\* Sequences over S of length at most n.
SeqsUpTo(S, n) == UNION {[1 .. k -> S] : k \in 0 .. n}

Plaintexts == SeqsUpTo(Alphabet, MaxLen)

\* kind: how the input was made; x: the plaintext behind it (if any);
\* base: the container it was derived from (if any).
Input(kind, x, base, bytes) == [kind |-> kind, x |-> x, base |-> base, bytes |-> bytes]

BlockKinds == [1 .. 2 -> {ODZ_BLOCK_STORED, ODZ_BLOCK_HUFFMAN}]

\* Every container the compressor may produce for a plaintext.
ValidInputs ==
    {Input("valid", x, Compress(x, kinds), Compress(x, kinds)) :
        x \in Plaintexts, kinds \in BlockKinds}

\* Containers of runs of one byte.
RunInputs ==
    {Input("valid", x, Compress(x, kinds), Compress(x, kinds)) :
        x \in {[i \in 1 .. n |-> 65] : n \in 0 .. MaxLen}, kinds \in BlockKinds}

\* Containers of at most one byte.
TinyInputs ==
    {Input("valid", x, Compress(x, kinds), Compress(x, kinds)) :
        x \in SeqsUpTo({66}, 1), kinds \in BlockKinds}

\* Every proper prefix of a container.
TruncInputs ==
    UNION {{Input("trunc", c.x, c.bytes, SubSeq(c.bytes, 1, k)) :
                k \in 0 .. Len(c.bytes) - 1} : c \in RunInputs}

\* One container followed by another.
ConcatInputs ==
    {Input("concat", a.x, a.bytes, a.bytes \o b.bytes) : a \in RunInputs, b \in TinyInputs}

\* The first four bytes varied, in front of the rest of a container.
HeaderInputs ==
    {Input("header", c.x, c.bytes, << m1, m2, m3, v >> \o SubSeq(c.bytes, 5, Len(c.bytes))) :
        m1 \in {79, 111, 0}, m2 \in {68, 0}, m3 \in {90, 0}, v \in {2, 1, 3, 0},
        c \in TinyInputs}

\* A container whose header declares another size than its blocks hold.
SizedInputs ==
    {Input("sized", c.x, c.bytes,
           SubSeq(c.bytes, 1, 4) \o wr_u32le(lo) \o wr_u32le(hi)
               \o SubSeq(c.bytes, 13, Len(c.bytes))) :
        lo \in 0 .. MaxLen + 1, hi \in {0, 1}, c \in RunInputs}

FileHeaderFor(blocks, size) == FileHeader(size) \o blocks

\* Hand-made stored blocks: flag bytes with and without the high bits, sizes
\* up to and beyond the block size, with all or only part of the data present.
StoredInputs ==
    {Input("stored", << >>, << >>,
           FileHeaderFor(<< flag >> \o wr_u32le(n) \o [i \in 1 .. have |-> 66] \o tail,
                         IF n <= ODZ_BLOCK_SIZE THEN n ELSE 0)) :
        flag \in {0, 1, 8, 9, 249},
        n \in {0, 1, ODZ_BLOCK_SIZE, ODZ_BLOCK_SIZE + 1, 256, 65536},
        have \in {0, 1, ODZ_BLOCK_SIZE},
        tail \in {<< >>, StoredBlock(1, << >>)}}

\* Flag bytes whose bits 1-2 name a reserved block type, first or second block.
ReservedInputs ==
    {Input("reserved", << >>, << >>, FileHeaderFor(before \o << flag >> \o tail, 0)) :
        flag \in {4, 5, 6, 7, 12, 253, 254, 255},
        before \in {<< >>, StoredBlock(0, << >>), HuffmanBlock(2, 0, << 257, 1, 0, 256, 0, 256 >>)},
        tail \in {<< >>, << 0, 0, 0, 0 >>, << 1, 0, 0, 0, 1, 0, 0, 0, 65 >>}}

\* Elements of hand-made payloads: literals 0 and 'A' (0 is also distance
\* code 0), end of block, length code 0, and a symbol past the length codes.
UnitSet == {0, 65, LITLEN_END, 257, 286}

\* Hand-made Huffman blocks with valid trees and arbitrary tokens.
TokenInputs ==
    {Input("tokens", << >>, << >>,
           FileHeaderFor(HuffmanBlock(3, n, << 286, 30, 0, z, 0 >> \o t), n)) :
        n \in {0, 1, ODZ_BLOCK_SIZE - 1},
        z \in {65, LITLEN_END, 257},
        t \in SeqsUpTo(UnitSet, MaxUnits)}

\* Hand-made Huffman blocks: tree counts at and past their limits, the
\* over-subscribed flag, and raw sizes up to and beyond the block size.
TreeInputs ==
    {Input("trees", << >>, << >>,
           FileHeaderFor(HuffmanBlock(3, n, << n_ll, n_dist, over, LITLEN_END, 0, LITLEN_END >>),
                         IF n <= ODZ_BLOCK_SIZE THEN n ELSE 0)) :
        n \in {0, ODZ_BLOCK_SIZE + 1, 256},
        n_ll \in {256, 257, 286, 287}, n_dist \in {0, 1, 30, 31}, over \in {0, 1}}

\* Inputs that end before the file header is complete, with right and wrong
\* magic and version bytes.
ShortHeaderInputs ==
    {Input("shorthdr", << >>, << >>,
           SubSeq(<< m1, m2, m3, v, 0, 0, 0, 0, 0, 0, 0, 0 >>, 1, k)) :
        m1 \in {79, 0}, m2 \in {68, 0}, m3 \in {90, 0}, v \in {2, 3}, k \in 1 .. 11}

Inputs ==
    ValidInputs \cup TruncInputs \cup ConcatInputs \cup HeaderInputs \cup SizedInputs
        \cup StoredInputs \cup ReservedInputs \cup TokenInputs \cup TreeInputs
        \cup ShortHeaderInputs

\* How a caller may pass the options: NULL, no callback, a callback.
OptsSet ==
    { [present |-> FALSE, progress |-> FALSE, userdata |-> 0],
      [present |-> TRUE, progress |-> FALSE, userdata |-> 7],
      [present |-> TRUE, progress |-> TRUE, userdata |-> 7] }

\* The locals of odz_decompress before its first statement.
Fresh ==
    /\ inPos = 0
    /\ out = << >>
    /\ rc = ODZ_OK
    /\ original_size = U64(0)
    /\ total_out = 0
    /\ is_last = 0
    /\ blk_type = 0
    /\ raw_size = 0
    /\ comp = << >>
    /\ brPos = 0
    /\ zsym = [ll |-> 0, d |-> 0]
    /\ op = 0
    /\ out_pos = 0
    /\ block_out = << >>
    /\ heap = [b \in Buffers |-> [ptr |-> FALSE, allocs |-> 0, frees |-> 0]]
    /\ uaf = FALSE
    /\ calls = << >>
    /\ done = << >>
    /\ fault = NoFault

Init ==
    /\ \E i \in Inputs : in = i.bytes /\ src = [kind |-> i.kind, x |-> i.x, base |-> i.base]
    /\ opts \in OptsSet
    /\ pc = "ReadFileHdr"
    /\ hist = << "ReadFileHdr" >>
    /\ Fresh
    /\ host = NoHost
    /\ mc = NoCopy

Next ==
    \/ ReadFileHdr
    \/ ReadBlockHdr
    \/ ReadStored
    \/ ReadHuffman
    \/ ReadTrees
    \/ DecodeToken
    \/ FinishHuffman
    \/ Progress
    \/ Verify
    \/ Cleanup

Spec == Init /\ [][Next]_vars

\* odz_decompress runs to its return without waiting for anything: whenever
\* a step is possible, one is taken.
SpecLive == Spec /\ WF_vars(Next)

\* ------------------------------------------------------------ one match copy

\* Size of the buffer a single match copy is tried in.
CopyLen == 7

\* A block buffer with pos bytes produced, and a match the checks at lines
\* 87-88 let through: 1 <= dist <= pos, pos + length within the buffer.
CopyInputs ==
    UNION {{[state |-> "given",
             before |-> [i \in 0 .. CopyLen - 1 |-> IF i < pos THEN w[i + 1] ELSE -1],
             buf |-> [i \in 0 .. CopyLen - 1 |-> IF i < pos THEN w[i + 1] ELSE -1],
             pos |-> pos, dist |-> dist, length |-> length] :
                w \in [1 .. pos -> Alphabet], dist \in 1 .. pos,
                length \in 3 .. CopyLen - pos} : pos \in 1 .. CopyLen - 3}

\* Nothing of odz_decompress is running.
Idle ==
    /\ in = << >> /\ src = [kind |-> "none", x |-> << >>, base |-> << >>]
    /\ opts = [present |-> FALSE, progress |-> FALSE, userdata |-> 0]
    /\ pc = "Idle"
    /\ hist = << >>
    /\ Fresh

InitCopy == Idle /\ host = NoHost /\ mc \in CopyInputs

\* Lines 89-108: the match copy, applied to the buffer.
ApplyCopy ==
    /\ mc.state = "given"
    /\ mc' = [mc EXCEPT !.state = "copied",
                        !.buf = CopyMatch(mc.buf, mc.pos, mc.dist, mc.length)]
    /\ UNCHANGED << in, inPos, out, opts, pc, rc, original_size, total_out, is_last,
                    blk_type, raw_size, comp, brPos, zsym, op, out_pos, block_out,
                    heap, uaf, calls, done, fault, hist, src, host >>

NextCopy == ApplyCopy

SpecCopy == InitCopy /\ [][NextCopy]_vars

\* ------------------------------------------------------------ callers

\* What the callers hand to odz_compress.
PlainInputs ==
    {Input("plain", x, << >>, x) :
        x \in SeqsUpTo(Alphabet, 2) \cup {[i \in 1 .. n |-> 65] : n \in 3 .. MaxLen}}

\* What the callers hand to odz_decompress.
HostInputs == RunInputs \cup HeaderInputs \cup SizedInputs \cup ShortHeaderInputs

\* odz_compress as a whole: the container, or a failure that leaves nothing
\* or all but the last byte of it in the output.
CompressRun ==
    /\ pc = "Compress"
    /\ \E kinds \in BlockKinds, r \in {ODZ_OK, ODZ_ERR_IO, ODZ_ERR_OOM}, k \in {0, 1} :
         LET c == Compress(in, kinds)
         IN  /\ rc' = r
             /\ out' = IF r = ODZ_OK THEN c ELSE SubSeq(c, 1, k * (Len(c) - 1))
             /\ inPos' = IF r = ODZ_OK THEN Len(in) ELSE inPos
             /\ Goto("Done")
    /\ UNCHANGED << in, opts, original_size, total_out, is_last, blk_type, raw_size,
                    comp, brPos, zsym, op, out_pos, block_out, heap, uaf, calls,
                    done, fault, src, host, mc >>

\* Which library function the caller runs on an input.
ModeOf(i) == IF i.kind = "plain" THEN "c" ELSE "d"

Entry(mode) == IF mode = "c" THEN "Compress" ELSE "ReadFileHdr"

\* The library function is entered, or the caller is left, with nothing else touched.
Call(mode) == pc' = Entry(mode) /\ hist' = << Entry(mode) >>

NoCall == UNCHANGED << pc, hist >>

LibraryState ==
    << in, inPos, out, opts, rc, original_size, total_out, is_last, blk_type,
       raw_size, comp, brPos, zsym, op, out_pos, block_out, heap, uaf, calls,
       done, fault, src, mc >>

\* ---- the command line tool

\* main after its arguments are parsed: the mode, --force, whether the
\* output path names an existing file ("old"), and -q or not.
InitCli ==
    /\ \E i \in PlainInputs \cup HostInputs, f \in BOOLEAN, e \in {"absent", "old"} :
         /\ in = i.bytes /\ src = [kind |-> i.kind, x |-> i.x, base |-> i.base]
         /\ host = [kind |-> "cli", at |-> "Start", mode |-> ModeOf(i), force |-> f,
                    file |-> e, opened |-> FALSE, exit |-> -1]
    /\ opts \in {[present |-> TRUE, progress |-> p, userdata |-> 0] : p \in BOOLEAN}
    /\ pc = "Idle"
    /\ hist = << >>
    /\ Fresh
    /\ mc = NoCopy

\* exit(1) from die, or return 1.
CliLeave(h, code) == [h EXCEPT !.at = "Exited", !.exit = code]

\* Lines 144-169: the overwrite test, both fopen calls, the call.
CliOpen ==
    /\ host.kind = "cli" /\ host.at = "Start"
    /\ IF ~host.force /\ host.file # "absent"
       THEN host' = CliLeave(host, 1) /\ NoCall
       ELSE \E e \in {"ok", "fin", "fout"} :
              IF e = "ok"
              THEN /\ host' = [host EXCEPT !.at = "Running", !.opened = TRUE, !.file = "new"]
                   /\ Call(host.mode)
              ELSE host' = CliLeave(host, 1) /\ NoCall
    /\ UNCHANGED LibraryState

\* Mutation: only negative statuses taken for failures.
CliFailed_negative(r) == r < 0

\* Line 174.
CliFailed(r) == r # ODZ_OK

\* Lines 174-196: on failure close, remove the output file, die; else return 0.
CliExit ==
    /\ host.kind = "cli" /\ host.at = "Running" /\ pc = "Done"
    /\ host' = IF CliFailed(rc)
               THEN CliLeave([host EXCEPT !.file = "absent"], 1)
               ELSE CliLeave(host, 0)
    /\ NoCall
    /\ UNCHANGED LibraryState

NextCli ==
    \/ Next
    \/ CompressRun
    \/ CliOpen
    \/ CliExit

SpecCli == InitCli /\ [][NextCli]_vars

\* ---- the in-memory adapter

\* Largest original size odz_wasm_decompress accepts: 256u << 20.
WasmMaxOutput == 268435456

TooLarge(orig) == orig.hi # 0 \/ orig.lo > WasmMaxOutput

\* res as the adapter's functions first set it.
ResCleared == [err |-> 0, data |-> FALSE, size |-> 0]

InitWasm ==
    /\ \E i \in PlainInputs \cup HostInputs :
         /\ in = i.bytes /\ src = [kind |-> i.kind, x |-> i.x, base |-> i.base]
         /\ host = [kind |-> "wasm", at |-> "Start", mode |-> ModeOf(i),
                    res |-> ResCleared, obuf |-> "none", fin |-> "none", fout |-> "none"]
    /\ opts = [present |-> FALSE, progress |-> FALSE, userdata |-> 0]
    /\ pc = "Idle"
    /\ hist = << >>
    /\ Fresh
    /\ mc = NoCopy

\* return &res with an error code.
WasmFail(h, code) == [h EXCEPT !.at = "Returned", !.res.err = code]

\* Mutation: the output buffer kept on the error path.
ReleaseObuf_leak(b) == b

\* free(obuf)
ReleaseObuf(b) == "freed"

\* Both fmemopen calls and the malloc between them, and the call; e names
\* the first of them to fail, if any.
WasmOpen(e) ==
    IF e = "fin"
    THEN host' = WasmFail(host, ODZ_ERR_IO) /\ NoCall
    ELSE IF e = "malloc"
    THEN host' = WasmFail([host EXCEPT !.fin = "closed"], ODZ_ERR_OOM) /\ NoCall
    ELSE IF e = "fout"
    THEN host' = WasmFail([host EXCEPT !.fin = "closed", !.obuf = ReleaseObuf("live")],
                          ODZ_ERR_IO) /\ NoCall
    ELSE /\ host' = [host EXCEPT !.at = "Running", !.fin = "open", !.obuf = "live",
                                 !.fout = "open"]
         /\ Call(host.mode)

\* Lines 19-34: odz_wasm_compress up to the call.
WasmCompress ==
    /\ host.kind = "wasm" /\ host.at = "Start" /\ host.mode = "c"
    /\ \E e \in {"ok", "fin", "malloc", "fout"} : WasmOpen(e)
    /\ UNCHANGED LibraryState

\* Lines 35-47: after odz_compress; ftell may fail.
WasmCompressReturn ==
    /\ host.kind = "wasm" /\ host.at = "Running" /\ host.mode = "c" /\ pc = "Done"
    /\ \E written \in {Len(out), -1} :
         LET h == [host EXCEPT !.fin = "closed", !.fout = "closed"]
         IN  host' = IF rc # ODZ_OK \/ written < 0
                     THEN WasmFail([h EXCEPT !.obuf = ReleaseObuf(h.obuf)],
                                   IF rc # 0 THEN rc ELSE -1)
                     ELSE [h EXCEPT !.at = "Returned", !.res.data = TRUE,
                                    !.res.size = written]
    /\ NoCall
    /\ UNCHANGED LibraryState

\* Lines 53-79: odz_wasm_decompress up to the call.
WasmDecompress ==
    /\ host.kind = "wasm" /\ host.at = "Start" /\ host.mode = "d"
    /\ IF Len(in) < 12
       THEN host' = WasmFail(host, ODZ_ERR_FORMAT) /\ NoCall
       ELSE IF BadMagic(in)
       THEN host' = WasmFail(host, ODZ_ERR_FORMAT) /\ NoCall
       ELSE IF TooLarge(rd_u64le(in, 5))
       THEN host' = WasmFail(host, ODZ_ERR_OOM) /\ NoCall
       ELSE \E e \in {"ok", "fin", "malloc", "fout"} : WasmOpen(e)
    /\ UNCHANGED LibraryState

\* Lines 80-91: after odz_decompress.
WasmDecompressReturn ==
    /\ host.kind = "wasm" /\ host.at = "Running" /\ host.mode = "d" /\ pc = "Done"
    /\ LET h == [host EXCEPT !.fin = "closed", !.fout = "closed"]
       IN  host' = IF rc # ODZ_OK
                   THEN WasmFail([h EXCEPT !.obuf = ReleaseObuf(h.obuf)], rc)
                   ELSE [h EXCEPT !.at = "Returned", !.res.data = TRUE,
                                  !.res.size = rd_u64le(in, 5).lo]
    /\ NoCall
    /\ UNCHANGED LibraryState

NextWasm ==
    \/ Next
    \/ CompressRun
    \/ WasmCompress
    \/ WasmCompressReturn
    \/ WasmDecompress
    \/ WasmDecompressReturn

SpecWasm == InitWasm /\ [][NextWasm]_vars

\* ------------------------------------------------------------ properties

Returned == pc = "Done"

\* The environment did nothing wrong: every allocation and write succeeded
\* and the progress callback never asked to stop.
NoEnvFault == fault.kind \notin {"oom", "short_write", "abort"}

RECURSIVE SumSeq(_)
SumSeq(s) == IF s = << >> THEN 0 ELSE Head(s) + SumSeq(Tail(s))

InHist(p) == \E i \in 1 .. Len(hist) : hist[i] = p

\* The size the input's file header declares, read off the input itself.
Declared == [lo |-> rd_u32le(in, 5), hi |-> rd_u32le(in, 9)]

\* C1: round trip.  Decompressing the container the compressor made of x
\* (whichever block kinds it chose) returns OK and the output is exactly x,
\* provided no allocation or write failed and the callback did not abort.
C1_RoundTrip ==
    (Returned /\ src.kind = "valid" /\ NoEnvFault) => (rc = ODZ_OK /\ out = src.x)

\* A period-2 plaintext decoded from a Huffman block with an overlapping match.
C1_Witness ==
    /\ Returned /\ src.kind = "valid" /\ rc = ODZ_OK
    /\ out = << 65, 66, 65, 66, 65 >>
    /\ InHist("DecodeToken")

\* C2: size reconciliation.  OK is returned only if the raw sizes of the
\* blocks processed sum to the size the header declares; and once the block
\* flagged is_last was processed (so the final check was reached), a
\* different sum gives CORRUPT.
C2_SizeReconciliation ==
    Returned =>
        /\ rc = ODZ_OK => (Len(in) >= 12 /\ U64(SumSeq(done)) = Declared)
        /\ (InHist("Verify") /\ U64(SumSeq(done)) # Declared) => rc = ODZ_ERR_CORRUPT

\* The sum equals the low half of the declared size; only the high half differs.
C2_Witness ==
    /\ Returned /\ InHist("Verify") /\ rc = ODZ_ERR_CORRUPT
    /\ SumSeq(done) = Declared.lo /\ Declared.hi = 1 /\ Len(done) = 2

\* C3: the concatenation of two valid containers is never decoded with
\* status OK.
C3_ConcatRejected == (Returned /\ src.kind = "concat") => rc # ODZ_OK

\* Bits 1-2 of the byte at the read position name a reserved block type.
ReservedNext == Avail >= 1 /\ ((in[inPos + 1] \div 2) % 4) \in {2, 3}

\* C4: reserved block types.  A flag byte whose bits 1-2 are 2 or 3 gives
\* FORMAT: reading it consumes that byte only, writes nothing, completes no
\* block, and the operation then returns FORMAT.
C4_ReservedIsFormat ==
    /\ [][(pc = "ReadBlockHdr" /\ ReservedNext) =>
            /\ rc' = ODZ_ERR_FORMAT /\ pc' = "Cleanup"
            /\ inPos' = inPos + 1 /\ out' = out /\ done' = done
            /\ block_out' = block_out /\ total_out' = total_out]_vars
    /\ [](blk_type \in {2, 3} => (pc \in {"Cleanup", "Done"} /\ rc = ODZ_ERR_FORMAT))

\* A reserved type met as the second block, after a Huffman block.
C4_Witness ==
    /\ Returned /\ rc = ODZ_ERR_FORMAT /\ blk_type = 3
    /\ Len(done) = 1 /\ InHist("DecodeToken") /\ inPos < Len(in)

BadHeaderBytes ==
    Len(in) >= 12 /\ (in[1] # 79 \/ in[2] # 68 \/ in[3] # 90 \/ in[4] # 2)

\* C5: bad magic or version.  For an input of at least 12 bytes whose first
\* three bytes are not "ODZ" or whose fourth is not 2, the result is FORMAT;
\* only the 12 header bytes are read, no block header is read and nothing
\* is written.
C5_BadHeaderIsFormat ==
    BadHeaderBytes =>
        /\ pc \in {"ReadFileHdr", "Done"}
        /\ out = << >>
        /\ Returned => (rc = ODZ_ERR_FORMAT /\ inPos = 12 /\ hist = << "ReadFileHdr", "Done" >>)

\* Right magic, version 3, with a block following the header.
C5_Witness ==
    /\ Returned /\ rc = ODZ_ERR_FORMAT
    /\ in[1] = 79 /\ in[2] = 68 /\ in[3] = 90 /\ in[4] = 3 /\ Len(in) > 12

\* Scenario S6 at the model's scale: a two-block container without its last
\* 10 bytes, which puts the end of the input inside the first block's data.
TruncatedS6 ==
    /\ src.kind = "trunc" /\ NBlocks(src.x) = 2
    /\ Len(src.base) - Len(in) = 10

\* C6 as claimed: the truncated container fails with CORRUPT.
C6_TruncationCorrupt ==
    (Returned /\ TruncatedS6 /\ NoEnvFault) => rc = ODZ_ERR_CORRUPT

\* C6 as amended: a container with trailing bytes dropped fails with IO (the
\* read that meets the end of the input is short), or with OOM when an
\* allocation failed first; never with CORRUPT, and the output is a prefix
\* of the plaintext.
C6_TruncationIsIO ==
    (Returned /\ src.kind = "trunc") =>
        /\ rc = ODZ_ERR_IO \/ (rc = ODZ_ERR_OOM /\ fault.kind = "oom")
        /\ NoEnvFault => (rc = ODZ_ERR_IO /\ inPos = Len(in))
        /\ Len(out) <= Len(src.x) /\ out = SubSeq(src.x, 1, Len(out))

\* S6: the input ended inside the data of the first (Huffman) block.
C6_Witness ==
    /\ Returned /\ TruncatedS6 /\ rc = ODZ_ERR_IO
    /\ hist = << "ReadFileHdr", "ReadBlockHdr", "ReadHuffman", "Cleanup", "Done" >>
    /\ Len(comp) > 0

\* Bytes the reads of the current position ask for, given what the stream
\* holds (0 where the position reads nothing or stops before the payload).
Wanted ==
    CASE pc = "ReadFileHdr" -> 12
      [] pc = "ReadBlockHdr" -> 1
      [] pc = "ReadStored" ->
            IF Avail < 4 THEN 4
            ELSE IF rd_u32le(in, inPos + 1) > ODZ_BLOCK_SIZE THEN 4
            ELSE 4 + rd_u32le(in, inPos + 1)
      [] pc = "ReadHuffman" ->
            IF Avail < 8 THEN 8
            ELSE IF rd_u32le(in, inPos + 1) > ODZ_BLOCK_SIZE THEN 8
            ELSE 8 + rd_u32le(in, inPos + 5)
      [] OTHER -> 0

\* C7: short read is IO.  A step whose reads ask for more than the stream
\* holds ends the operation with IO without writing (in a Huffman block the
\* staging allocation comes before the payload read and may fail with OOM
\* first); a block write that puts fewer bytes than the block holds ends it
\* with IO; and after either, cleanup changes neither status nor streams.
C7_ShortReadIsIO ==
    /\ [][(Avail < Wanted) =>
            /\ pc' \in {"Cleanup", "Done"} /\ out' = out
            /\ \/ rc' = ODZ_ERR_IO /\ inPos' = Len(in)
               \/ pc = "ReadHuffman" /\ Avail >= 8 /\ rc' = ODZ_ERR_OOM]_vars
    /\ [][(pc \in {"ReadStored", "FinishHuffman"} /\ Avail >= Wanted
             /\ Len(out') - Len(out) < raw_size'
             /\ (pc = "FinishHuffman" => out_pos = raw_size)
             /\ (pc = "ReadStored" => raw_size' <= ODZ_BLOCK_SIZE)) =>
            (rc' = ODZ_ERR_IO /\ pc' = "Cleanup" /\ total_out' = total_out)]_vars
    /\ [][pc = "Cleanup" =>
            (pc' = "Done" /\ rc' = rc /\ out' = out /\ inPos' = inPos)]_vars

\* The payload of a Huffman block was cut short, after a stored block went through.
C7_Witness ==
    /\ Returned /\ rc = ODZ_ERR_IO /\ fault = [kind |-> "short_read", at |-> "ReadHuffman"]
    /\ Len(comp) > 0 /\ Len(done) = 1 /\ Len(out) > 0

\* C8: progress callback.  With a callback set it is called exactly once per
\* block decoded and written (the last one included, none for a failed
\* block), with the cumulative output size, the header's declared size and
\* the user context; the cumulative size never decreases; the first nonzero
\* return is the last call and gives IO with nothing further read.  Without
\* a callback nothing is called.
C8_ProgressCalls ==
    /\ ~(opts.present /\ opts.progress) => calls = << >>
    /\ (opts.present /\ opts.progress) =>
          Len(calls) = Len(done) - (IF pc = "Progress" THEN 1 ELSE 0)
    /\ \A i \in 1 .. Len(calls) :
          /\ calls[i].processed = U64(SumSeq(SubSeq(done, 1, i)))
          /\ calls[i].total = Declared
          /\ calls[i].userdata = opts.userdata
          /\ \A j \in 1 .. i : calls[j].processed.lo <= calls[i].processed.lo
          /\ calls[i].ret # 0 =>
                /\ i = Len(calls)
                /\ pc \in {"Cleanup", "Done"}
                /\ rc = ODZ_ERR_IO
                /\ Len(done) = i

\* Two calls with growing totals; the second returned -1 and ended the run
\* before the rest of the input was read.
C8_Witness ==
    /\ Returned /\ rc = ODZ_ERR_IO /\ Len(calls) = 2
    /\ calls[1].ret = 0 /\ calls[2].ret = -1
    /\ calls[1].processed.lo < calls[2].processed.lo
    /\ inPos < Len(in)

\* C9: oversized block.  A stored or Huffman block header whose raw_size
\* exceeds the block size gives CORRUPT with only the size fields read: no
\* payload byte is read, neither buffer is touched, no staging buffer is
\* allocated and nothing is written.
C9_OversizedIsCorrupt ==
    [][((pc = "ReadStored" /\ Avail >= 4) \/ (pc = "ReadHuffman" /\ Avail >= 8))
          /\ rd_u32le(in, inPos + 1) > ODZ_BLOCK_SIZE =>
            /\ rc' = ODZ_ERR_CORRUPT /\ pc' = "Cleanup"
            /\ inPos' = inPos + (IF pc = "ReadStored" THEN 4 ELSE 8)
            /\ out' = out /\ block_out' = block_out /\ comp' = comp
            /\ heap' = heap /\ done' = done /\ total_out' = total_out]_vars

\* A Huffman block one byte over the block size, its payload left unread.
C9_Witness ==
    /\ Returned /\ rc = ODZ_ERR_CORRUPT /\ blk_type = ODZ_BLOCK_HUFFMAN
    /\ raw_size = ODZ_BLOCK_SIZE + 1 /\ inPos = 21 /\ Len(in) > 21
    /\ heap["comp"].allocs = 0 /\ out = << >>

\* C10: buffer ownership.  No buffer is released more often than acquired
\* or used while released; on return every buffer acquired has been
\* released; the staging buffer is held only while a Huffman block is being
\* processed and is released before the next block header is read.
C10_BufferOwnership ==
    /\ \A b \in Buffers :
          /\ heap[b].frees <= heap[b].allocs
          /\ heap[b].allocs <= heap[b].frees + 1
          /\ Returned => heap[b].frees = heap[b].allocs
    /\ ~uaf
    /\ heap["comp"].allocs # heap["comp"].frees =>
          /\ blk_type = ODZ_BLOCK_HUFFMAN
          /\ pc \in {"ReadTrees", "DecodeToken", "FinishHuffman", "Cleanup"}

\* Two Huffman blocks: the staging buffer acquired and released twice.
C10_Witness ==
    /\ Returned /\ rc = ODZ_OK
    /\ heap["comp"].allocs = 2 /\ heap["comp"].frees = 2
    /\ heap["ll_tab"].allocs = 1 /\ heap["block_out"].frees = 1

\* The phase of the decoder's state machine a position belongs to: reading
\* the trees, decoding tokens and the block-end check are ReadHuffman, the
\* progress call belongs to the block just processed, cleanup to Done.
PhaseOf(p, t) ==
    IF p \in {"ReadTrees", "DecodeToken", "FinishHuffman"} THEN "ReadHuffman"
    ELSE IF p = "Progress"
    THEN (IF t = ODZ_BLOCK_STORED THEN "ReadStored" ELSE "ReadHuffman")
    ELSE IF p = "Cleanup" THEN "Done"
    ELSE p

PhaseStep ==
    LET a == PhaseOf(pc, blk_type)
        b == PhaseOf(pc', blk_type')
        flag == in[inPos + 1]
        Error == b = "Done" /\ rc' # ODZ_OK
    IN  /\ a \in {"ReadStored", "ReadHuffman"} => is_last' = is_last
        /\ a = "Done" => (b = "Done" /\ rc' = rc)
        /\ \/ a = b
           \/ a = "ReadFileHdr" /\ (b = "ReadBlockHdr" \/ Error)
           \/ /\ a = "ReadBlockHdr"
              /\ \/ b = "ReadStored" /\ (flag \div 2) % 4 = 0 /\ is_last' = flag % 2
                 \/ b = "ReadHuffman" /\ (flag \div 2) % 4 = 1 /\ is_last' = flag % 2
                 \/ Error
           \/ /\ a \in {"ReadStored", "ReadHuffman"}
              /\ \/ b = "ReadBlockHdr" /\ is_last = 0
                 \/ b = "Verify" /\ is_last # 0
                 \/ Error
           \/ a = "Verify" /\ b = "Done"

\* C12: phase order.  Every step of the decoder stays in its phase or moves
\* along ReadFileHdr -> ReadBlockHdr -> ReadStored or ReadHuffman (as bits
\* 1-2 of the flag byte say) -> ReadBlockHdr again if the block's is_last bit
\* is 0, Verify if it is 1 -> Done; a phase is left for Done early only with
\* a status other than OK.  So Verify is entered only after a block flagged
\* is_last, no block header is read after such a block, and OK is returned
\* only from Verify.
C12_PhaseOrder == [][PhaseStep]_vars

\* A stored block, then a Huffman block flagged is_last, then Verify and OK.
C12_Witness ==
    /\ rc = ODZ_OK
    /\ hist = << "ReadFileHdr", "ReadBlockHdr", "ReadStored", "Progress",
                 "ReadBlockHdr", "ReadHuffman", "ReadTrees", "DecodeToken",
                 "FinishHuffman", "Progress", "Verify", "Cleanup", "Done" >>

\* What the token loop's next pass will see, read off the payload.
TokenSym == IF brPos < Len(comp) THEN comp[brPos + 1] ELSE zsym.ll

TokenLength ==
    LET c == TokenSym - 257
        e == extra_lbits[c + 1]
    IN  base_length[c + 1]
        + (IF e > 0 /\ brPos + 1 < Len(comp) THEN comp[brPos + 2] % Pow2(e) ELSE 0)

TokenDistCode ==
    LET at == brPos + 1 + (IF extra_lbits[TokenSym - 257 + 1] > 0 THEN 1 ELSE 0)
    IN  IF at < Len(comp) THEN comp[at + 1] ELSE zsym.d

TokenDist ==
    LET at == brPos + 2 + (IF extra_lbits[TokenSym - 257 + 1] > 0 THEN 1 ELSE 0)
        e == extra_dbits[TokenDistCode + 1]
    IN  base_dist[TokenDistCode + 1]
        + (IF e > 0 /\ at < Len(comp) THEN comp[at + 1] % Pow2(e) ELSE 0)

\* The token breaks one of the hot-loop invariants.
TokenViolates ==
    IF TokenSym < 256 THEN op >= raw_size
    ELSE IF TokenSym = LITLEN_END THEN FALSE
    ELSE IF TokenSym - 257 < 0 \/ TokenSym - 257 >= 29 THEN TRUE
    ELSE IF TokenDistCode < 0 \/ TokenDistCode >= 30 THEN TRUE
    ELSE TokenDist < 1 \/ TokenDist > op \/ op + TokenLength > raw_size

\* Every length the decoded length code can give lies in 3 .. 258.
LengthInRange ==
    LET c == TokenSym - 257
    IN  \A e \in 0 .. Pow2(extra_lbits[c + 1]) - 1 :
            3 <= base_length[c + 1] + e /\ base_length[c + 1] + e <= 258

TokenStep ==
    LET wrote == {i \in DOMAIN block_out : block_out'[i] # block_out[i]}
    IN  /\ 0 <= op /\ op <= op' /\ op' <= raw_size /\ raw_size <= ODZ_BLOCK_SIZE
        /\ wrote \subseteq op .. op' - 1
        /\ IF TokenViolates
           THEN rc' = ODZ_ERR_CORRUPT /\ pc' = "Cleanup"
                /\ block_out' = block_out /\ op' = op
           ELSE /\ rc' = ODZ_OK
                /\ TokenSym < 256 => op' = op + 1 /\ block_out'[op] = TokenSym
                /\ TokenSym > LITLEN_END =>
                      /\ LengthInRange
                      /\ TokenLength >= 3 /\ TokenLength <= 258
                      /\ TokenDist >= 1 /\ TokenDist <= op
                      /\ op' = op + TokenLength

\* C13: decode bounds.  While a Huffman block is decoded the write position
\* stays within 0 .. raw_size and only grows; a literal is stored only below
\* raw_size; a match is copied only with 1 <= dist <= op, 3 <= length <= 258
\* and op + length <= raw_size; a pass writes only at [op, op'), so never
\* outside [0, raw_size); and a token breaking any of these returns CORRUPT
\* with no byte of it stored.
C13_DecodeBounds == [][pc = "DecodeToken" => TokenStep]_vars

\* A match was copied up to the very end of the block; the payload ended
\* there, and the literal the all-zero code stands for was refused.
C13_Witness ==
    /\ Returned /\ rc = ODZ_ERR_CORRUPT /\ InHist("DecodeToken")
    /\ op = raw_size /\ op = 4 /\ block_out[3] = 65
    /\ brPos >= Len(comp) /\ TokenSym < 256

\* C14: block-end size check.  When the end-of-block symbol is decoded with
\* the write position different from raw_size (fewer bytes produced than
\* declared), the block is refused: the status is CORRUPT and nothing of the
\* block is written or counted.
C14_BlockEndCheck ==
    [][(pc = "FinishHuffman" /\ op # raw_size) =>
          /\ rc' = ODZ_ERR_CORRUPT /\ pc' = "Cleanup"
          /\ out' = out /\ total_out' = total_out /\ done' = done]_vars

\* One literal of a block declared larger, then the end-of-block symbol.
C14_Witness ==
    /\ Returned /\ rc = ODZ_ERR_CORRUPT
    /\ Len(hist) >= 3 /\ hist[Len(hist) - 2] = "FinishHuffman"
    /\ op = 1 /\ raw_size = ODZ_BLOCK_SIZE - 1 /\ out = << >>

\* The reference copy: one byte at a time, lowest address first, each byte
\* read after the bytes before it were written.
RECURSIVE ForwardCopy(_, _, _, _, _)
ForwardCopy(buf, pos, dist, length, k) ==
    IF k = length THEN buf
    ELSE ForwardCopy([buf EXCEPT ![pos + k] = buf[pos + k - dist]], pos, dist, length, k + 1)

\* C15: match copy.  For every match that passed the checks, with distance
\* at least the length, distance 1, or any shorter distance, the bytes the
\* decoder's three-branch copy leaves in the buffer are those of a forward
\* byte-by-byte copy of length bytes from op - dist to op.
C15_MatchCopy ==
    mc.state = "copied" =>
        mc.buf = ForwardCopy(mc.before, mc.pos, mc.dist, mc.length, 0)

\* A period of two different bytes repeated two and a half times.
C15_Witness ==
    /\ mc.state = "copied" /\ mc.dist = 2 /\ mc.length = 5
    /\ mc.buf = [i \in 0 .. CopyLen - 1 |-> IF i % 2 = 0 THEN 65 ELSE 66]

\* The magic is disproved by one of the first three bytes, or the fourth
\* byte is not the known version.
HeaderDisproved ==
    \/ Len(in) >= 1 /\ in[1] # 79
    \/ Len(in) >= 2 /\ in[2] # 68
    \/ Len(in) >= 3 /\ in[3] # 90
    \/ Len(in) >= 4 /\ in[4] # ODZ_VERSION

\* C16: eager format detection.  An input whose magic or version byte is
\* wrong returns FORMAT whatever follows, also when it ends before the 12
\* header bytes are complete; and once a flag byte naming a reserved block
\* type was read the result is FORMAT, also when the input ends there.
C16_EagerFormat ==
    Returned =>
        /\ HeaderDisproved => rc = ODZ_ERR_FORMAT
        /\ blk_type \in {2, 3} => rc = ODZ_ERR_FORMAT

\* The transmitted trees are invalid: a count out of its range, or a length
\* vector that is over-subscribed.
InvalidTrees(c) ==
    LET n_ll == IF Len(c) >= 1 THEN c[1] ELSE 0
        n_dist == IF Len(c) >= 2 THEN c[2] ELSE 0
        over == IF Len(c) >= 3 THEN c[3] ELSE 0
    IN  n_ll \notin 257 .. 286 \/ n_dist \notin 1 .. 30 \/ over # 0

BlockLoopStep ==
    pc = "ReadBlockHdr" => (inPos' = inPos + 1 \/ (pc' = "Cleanup" /\ rc' # ODZ_OK))

\* One pass of the token loop ends the block or moves the write position up,
\* within the block.
TokenLoopStep ==
    pc = "DecodeToken" =>
        \/ pc' = "FinishHuffman"
        \/ pc' = "Cleanup" /\ rc' = ODZ_ERR_CORRUPT
        \/ pc' = "DecodeToken" /\ op' > op /\ op' <= raw_size /\ raw_size <= ODZ_BLOCK_SIZE

\* C19: termination.  Every run of odz_decompress on a finite input reaches
\* its return.  Each pass of the block loop consumes an input byte or ends
\* the operation; each pass of the token loop ends the block (end-of-block
\* symbol or CORRUPT) or strictly increases the write position, which stays
\* at most raw_size <= ODZ_BLOCK_SIZE, also when the payload is exhausted and
\* the bit reader returns zeros.
C19_Termination ==
    /\ [][BlockLoopStep /\ TokenLoopStep]_vars
    /\ <>Returned

\* A payload with no token at all: the all-zero code, a literal, was decoded
\* from beyond its end until the block was full, then refused.
C19_Witness ==
    /\ Returned /\ rc = ODZ_ERR_CORRUPT /\ InHist("DecodeToken")
    /\ Len(comp) = 5 /\ brPos > Len(comp) /\ zsym.ll = 65
    /\ raw_size = ODZ_BLOCK_SIZE - 1 /\ op = raw_size

\* The blocks' contents are known: the input was made from a plaintext.
FromPlaintext == src.kind \in {"valid", "trunc", "concat", "sized", "header"}

\* C20 as claimed: in every state the bytes written are the contents of the
\* completed blocks, and the running total is the number of bytes written.
C20_OutputIsCommitted ==
    /\ total_out = SumSeq(done)
    /\ Len(out) = total_out
    /\ FromPlaintext => out = SubSeq(src.x, 1, total_out)

\* C20, amended: per-block output commit.  Bytes go to the output only in
\* the step that has read a whole stored block, or decoded a whole Huffman
\* block with the write position at raw_size.  In every state the running
\* total is the sum of the completed blocks' sizes; unless a write came up
\* short, the bytes written are exactly the completed blocks' contents, in
\* order; after a short write (which gives IO) they are followed by a proper
\* prefix of the block whose write failed.
C20_CommitUnlessShortWrite ==
    /\ [][out' # out =>
            \/ pc = "ReadStored"
            \/ pc = "FinishHuffman" /\ op = raw_size]_vars
    /\ [](/\ total_out = SumSeq(done)
          /\ fault.kind # "short_write" => Len(out) = total_out
          /\ fault.kind = "short_write" =>
                /\ rc = ODZ_ERR_IO
                /\ Len(out) >= total_out /\ Len(out) < total_out + raw_size
          /\ FromPlaintext =>
                (Len(out) <= Len(src.x) /\ out = SubSeq(src.x, 1, Len(out))))

\* The write of a full Huffman block came up short after two bytes.
C20_Witness ==
    /\ Returned /\ rc = ODZ_ERR_IO /\ fault.kind = "short_write"
    /\ InHist("FinishHuffman") /\ raw_size = ODZ_BLOCK_SIZE
    /\ total_out = 0 /\ Len(out) = 2

\* C11: CLI cleanup.  When the library function the CLI called returns a
\* status other than OK, the CLI's next step removes the output file it
\* opened and exits nonzero; and when the CLI has exited after opening its
\* output file, the file is still there only if the function returned OK
\* (and then the exit status is 0).
C11_CliCleanup ==
    /\ [][(host.at = "Running" /\ pc = "Done" /\ rc # ODZ_OK) =>
            (host'.at = "Exited" /\ host'.file = "absent" /\ host'.exit # 0)]_vars
    /\ []((host.at = "Exited" /\ host.opened) =>
            /\ pc = "Done"
            /\ rc # ODZ_OK => (host.file = "absent" /\ host.exit # 0)
            /\ host.file # "absent" => (rc = ODZ_OK /\ host.exit = 0))

\* A decompression that had written a block when the final check failed.
C11_Witness ==
    /\ host.at = "Exited" /\ host.opened /\ host.mode = "d"
    /\ rc = ODZ_ERR_CORRUPT /\ Len(out) > 0
    /\ host.file = "absent" /\ host.exit = 1

\* C18: in-memory adapter results.  When odz_wasm_compress or
\* odz_wasm_decompress has returned: a failure of the library function or of
\* any step of the adapter gives err # 0, data = NULL and size = 0, with the
\* output buffer, if it was allocated, freed; err = 0 comes with a non-NULL
\* data buffer that is still allocated (now the caller's), only when the
\* library function returned OK, and for decompress the size reported is
\* the original size the container's header declares, which is the number
\* of bytes decoded.
C18_WasmResults ==
    host.at = "Returned" =>
        /\ (pc = "Done" /\ rc # ODZ_OK) => host.res.err # 0
        /\ host.res.err # 0 =>
              (host.obuf # "live" /\ ~host.res.data /\ host.res.size = 0)
        /\ host.res.err = 0 =>
              /\ host.res.data /\ host.obuf = "live"
              /\ pc = "Done" /\ rc = ODZ_OK
              /\ host.fin = "closed" /\ host.fout = "closed"
              /\ host.mode = "d" =>
                    (U64(host.res.size) = Declared /\ host.res.size = Len(out))

\* odz_decompress failed at its final check after the buffer was allocated.
C18_Witness ==
    /\ host.at = "Returned" /\ host.mode = "d" /\ InHist("Verify")
    /\ host.res.err = ODZ_ERR_CORRUPT /\ host.obuf = "freed"

====
